---- MODULE Spec2Model ----
(***************************************************************************)
(* Model of the goa application core (application.go): the Application     *)
(* (middleware chain, error handler, router handle), the per-request       *)
(* dispatch closure returned by NewHTTPRouterHandle, and the two built-in  *)
(* error handlers.                                                         *)
(*                                                                         *)
(* A composed handler is represented by the list of its middleware layers, *)
(* outermost first, around an innermost closure ("terminal": lines 117-122 *)
(* or "fallback": lines 156-159).  Running it is a call stack: a layer's   *)
(* "before" phase, the call of the wrapped handler, and on the way back    *)
(* the layer's "after" phase.  Middleware and the terminal handler are     *)
(* user code: every behaviour they can show (call the wrapped handler,     *)
(* return without calling it, write a response or not, return nil or an    *)
(* error, panic) is a nondeterministic choice.                             *)
(***************************************************************************)
EXTENDS Integers, Sequences, FiniteSets, TLC

\* ---- bounds ----
NumMw == 2        \* distinct middleware values that may be registered
MaxChain == 2     \* longest app.Middleware
NumReq == 2       \* requests (each dispatched at most once)

Mws == 1..NumMw
Reqs == 1..NumReq
SeqReqs == {1}    \* the request of the one-request-at-a-time specification

Policies == {"DefaultErrorHandler", "TerseErrorHandler"}

\* ---- errors ----
\* An error value: its dynamic type (kind) and its Error() text.
NoErr == [kind |-> "nil", msg |-> ""]
BadRequest == [kind |-> "BadRequestError", msg |-> "invalid param"]
Internal == [kind |-> "error", msg |-> "boom"]
Unhandled == [kind |-> "error", msg |-> "unhandled request"]
HandlerErrors == {BadRequest, Internal}
AllErrors == HandlerErrors \cup {Unhandled}
InvalidJSONBody == "{kind:invalid request,msg:invalid JSON: decoder error}"

VARIABLES
    Middleware,    \* app.Middleware
    ErrorHandler,  \* app.ErrorHandler
    exited,        \* os.Exit(1) was called
    fatalMsg,      \* the message Fatal logged before exiting
    serving,       \* http.ListenAndServe is serving
    bound,         \* NewHTTPRouterHandle was called
    chain,         \* the closure's captured chain
    middleware,    \* the closure's composed handler (layers, outermost first)
    pc,            \* per request: position of the dispatch
    handler,       \* per request: the handler run (layers and innermost closure)
    depth,         \* per request: number of layers whose wrapped call is open
    ret,           \* per request: the value being returned up the stack
    ctx,           \* per request: the Context
    trace,         \* per request: what ran, in order
    ehLog,         \* per request: the ErrorHandler invocations
    req,           \* per request: the incoming http.Request
    panicked,      \* per request: the dispatch unwinds by panic
    child,         \* per request: a goroutine waiting on ctx.Done()
    task,          \* per request: a goroutine a middleware runs its wrapped handler in
    seen,          \* per request: the flag as read by the response check
    ehIn,          \* input of the error handler functions (pure-function check)
    ehOut          \* their outputs, per policy

appVars == <<Middleware, ErrorHandler, exited, fatalMsg, serving, bound, chain, middleware>>
taskVars == <<task, seen>>
reqVars == <<req, pc, handler, depth, ret, ctx, trace, ehLog, panicked, child, taskVars>>
ehVars == <<ehIn, ehOut>>
vars == <<appVars, reqVars, ehVars>>

\* ---- Context ----
NewContext(payload) ==
    [written |-> FALSE, header |-> "", responses |-> <<>>, payload |-> payload,
     cancelled |-> FALSE, errlog |-> {}]

ResponseWritten(c) == c.written

\* ctx.Respond(code, body): writes the status line with the headers set so far and
\* then the body; wok = FALSE is a transport error on the body write.
Respond(c, code, body, wok) ==
    [c EXCEPT !.written = TRUE,
              !.responses = Append(@, [status |-> code, body |-> body,
                                       ctype |-> c.header, ok |-> wok])]

SetContentType(c, v) == [c EXCEPT !.header = v]

LogError(c, m) == [c EXCEPT !.errlog = @ \cup {m}]

\* ---- error handlers ----
\* a default handler that forgets the Content-Type of the 400 response
DefaultErrorHandler_NoContentType(c, e, wok) ==
    LET bad == e.kind = "BadRequestError"
        status == IF bad THEN 400 ELSE 500
        c2 == Respond(c, status, e.msg, wok)
    IN  IF wok THEN c2
        ELSE LogError(c2, "failed to send default error handler response")

DefaultErrorHandler(c, e, wok) ==
    LET bad == e.kind = "BadRequestError"
        status == IF bad THEN 400 ELSE 500
        c1 == IF bad THEN SetContentType(c, "application/json") ELSE c
        c2 == Respond(c1, status, e.msg, wok)
    IN  IF wok THEN c2
        ELSE LogError(c2, "failed to send default error handler response")

\* a terse handler that forgets the Content-Type of the 400 response
TerseErrorHandler_NoContentType(c, e, wok) ==
    LET bad == e.kind = "BadRequestError"
        status == IF bad THEN 400 ELSE 500
        body == IF bad THEN e.msg ELSE ""
        c2 == Respond(c, status, body, wok)
    IN  IF wok THEN c2
        ELSE LogError(c2, "failed to send terse error handler response")

\* a terse handler that sends the message of internal errors too
TerseErrorHandler_Leaky(c, e, wok) ==
    LET bad == e.kind = "BadRequestError"
        status == IF bad THEN 400 ELSE 500
        c1 == IF bad THEN SetContentType(c, "application/json") ELSE c
        c2 == Respond(c1, status, e.msg, wok)
    IN  IF wok THEN c2
        ELSE LogError(c2, "failed to send terse error handler response")

TerseErrorHandler(c, e, wok) ==
    LET bad == e.kind = "BadRequestError"
        status == IF bad THEN 400 ELSE 500
        body == IF bad THEN e.msg ELSE ""
        c1 == IF bad THEN SetContentType(c, "application/json") ELSE c
        c2 == Respond(c1, status, body, wok)
    IN  IF wok THEN c2
        ELSE LogError(c2, "failed to send terse error handler response")

\* app.ErrorHandler(ctx, err) with the handler currently set
CallErrorHandler(policy, c, e, wok) ==
    IF policy = "DefaultErrorHandler" THEN DefaultErrorHandler(c, e, wok)
    ELSE TerseErrorHandler(c, e, wok)

\* ---- middleware composition ----
\* The loop `for i := range chain { h = chain[ml-i-1](h) }`: acc is the list of
\* layers around the innermost closure, outermost first; wrapping adds in front.
\* wrapping in registration order instead
WrapIndex_Forward(ml, i) == i

WrapIndex(ml, i) == ml - i - 1

RECURSIVE WrapLoop(_, _, _)
WrapLoop(ch, i, acc) ==
    IF i >= Len(ch) THEN acc
    ELSE WrapLoop(ch, i + 1, <<ch[WrapIndex(Len(ch), i) + 1]>> \o acc)

\* a loop that stops one short and never applies chain[0]
Compose_DropOuter(ch) ==
    LET all == WrapLoop(ch, 0, <<>>) IN IF all = <<>> THEN all ELSE Tail(all)

Compose(ch) == WrapLoop(ch, 0, <<>>)

\* Lines 154-163: the handler a request runs; err: the body failed to decode
\* (a fallback that is not wrapped by the chain)
ChooseHandler_BareFallback(err, ch, mw) ==
    IF err THEN [layers |-> <<>>, inner |-> "fallback"]
    ELSE [layers |-> mw, inner |-> "terminal"]

\* (a closure that reads app.Middleware at dispatch time instead of the
\* captured chain)
ChooseHandler_LiveChain(err, ch, mw) ==
    IF err THEN [layers |-> Compose(Middleware), inner |-> "fallback"]
    ELSE [layers |-> Compose(Middleware), inner |-> "terminal"]

ChooseHandler(err, ch, mw) ==
    IF err THEN [layers |-> Compose(ch), inner |-> "fallback"]
    ELSE [layers |-> mw, inner |-> "terminal"]


\* ---- Application ----
NoRequest == [ContentLength |-> 0, valid |-> TRUE]
NoHandler == [layers |-> <<>>, inner |-> "none"]

InitApp ==
    /\ Middleware = <<>>
    /\ ErrorHandler = "DefaultErrorHandler"
    /\ exited = FALSE
    /\ fatalMsg = ""
    /\ serving = FALSE
    /\ bound = FALSE
    /\ chain = <<>>
    /\ middleware = <<>>

InitReq ==
    /\ req = [r \in Reqs |-> NoRequest]
    /\ pc = [r \in Reqs |-> "idle"]
    /\ handler = [r \in Reqs |-> NoHandler]
    /\ depth = [r \in Reqs |-> 0]
    /\ ret = [r \in Reqs |-> NoErr]
    /\ ctx = [r \in Reqs |-> NewContext("nil")]
    /\ trace = [r \in Reqs |-> <<>>]
    /\ ehLog = [r \in Reqs |-> <<>>]
    /\ panicked = [r \in Reqs |-> FALSE]
    /\ child = [r \in Reqs |-> "none"]
    /\ task = [r \in Reqs |-> "none"]
    /\ seen = [r \in Reqs |-> FALSE]

NoEhIn == [c |-> NewContext("nil"), e |-> NoErr]

Init ==
    /\ InitApp
    /\ InitReq
    /\ ehIn = NoEhIn
    /\ ehOut = [p \in Policies |-> <<>>]

\* app.Use(m): valid = FALSE is a value NewMiddleware rejects
Use(m, valid) ==
    /\ ~exited
    /\ Len(Middleware) < MaxChain
    /\ IF valid
       THEN /\ Middleware' = Append(Middleware, m)
            /\ UNCHANGED <<exited, fatalMsg>>
       ELSE /\ exited' = TRUE      \* Fatal: os.Exit(1)
            /\ fatalMsg' = "invalid middleware"
            /\ UNCHANGED Middleware
    /\ UNCHANGED <<ErrorHandler, serving, bound, chain, middleware, reqVars, ehVars>>

SetErrorHandler(h) ==
    /\ ~exited
    /\ ErrorHandler' = h
    /\ UNCHANGED <<Middleware, exited, fatalMsg, serving, bound, chain, middleware, reqVars,
                   ehVars>>

\* app.Run(addr): ok = FALSE is ListenAndServe failing to bind
Run(ok) ==
    /\ ~exited
    /\ ~serving
    /\ IF ok
       THEN /\ serving' = TRUE
            /\ UNCHANGED <<exited, fatalMsg>>
       ELSE /\ exited' = TRUE      \* Fatal: os.Exit(1)
            /\ fatalMsg' = "startup failed"
            /\ UNCHANGED serving
    /\ UNCHANGED <<Middleware, ErrorHandler, bound, chain, middleware, reqVars, ehVars>>

\* The part of NewHTTPRouterHandle outside the returned closure
NewHTTPRouterHandle ==
    /\ ~exited
    /\ ~bound
    /\ bound' = TRUE
    /\ chain' = Middleware
    /\ middleware' = Compose(Middleware)
    /\ UNCHANGED <<Middleware, ErrorHandler, exited, fatalMsg, serving, reqVars, ehVars>>

\* ---- the per-request closure ----
Ev(e, m, o) == [ev |-> e, mw |-> m, out |-> o]
Call(p, e, site) == [policy |-> p, cause |-> e, site |-> site]

ContentLengths == {-1, 0, 1}

\* Line 142: `if r.ContentLength > 0`, the condition under which the body is
\* decoded
\* (a test that also decodes when the length is unknown, -1)
HasBody_NonZero(cl) == cl # 0

HasBody(cl) == cl > 0

\* Lines 128-163: parameters, body decoding, context, choice of handler
\* (a closure whose Context lives outside the closure, one for all requests)
ReqStart_SharedContext(r, cl, dok) ==
    /\ ~exited
    /\ bound
    /\ pc[r] = "idle"
    /\ LET decoded == HasBody(cl)
           err == decoded /\ ~dok
           payload == IF decoded /\ dok THEN "decoded" ELSE "nil"
       IN  /\ req' = [req EXCEPT ![r] = [ContentLength |-> cl, valid |-> dok]]
           /\ ctx' = [q \in Reqs |-> NewContext(payload)]
           /\ trace' = [trace EXCEPT ![r] =
                          IF decoded
                          THEN <<Ev("decode", 0, IF err THEN BadRequest ELSE NoErr)>>
                          ELSE <<>>]
           /\ handler' = [handler EXCEPT ![r] = ChooseHandler(err, chain, middleware)]
    /\ pc' = [pc EXCEPT ![r] = "down"]
    /\ UNCHANGED <<appVars, depth, ret, ehLog, panicked, child, taskVars, ehVars>>

ReqStart(r, cl, dok) ==
    /\ ~exited
    /\ bound
    /\ pc[r] = "idle"
    /\ LET decoded == HasBody(cl)
           err == decoded /\ ~dok
           payload == IF decoded /\ dok THEN "decoded" ELSE "nil"
       IN  /\ req' = [req EXCEPT ![r] = [ContentLength |-> cl, valid |-> dok]]
           /\ ctx' = [ctx EXCEPT ![r] = NewContext(payload)]
           /\ trace' = [trace EXCEPT ![r] =
                          IF decoded
                          THEN <<Ev("decode", 0, IF err THEN BadRequest ELSE NoErr)>>
                          ELSE <<>>]
           /\ handler' = [handler EXCEPT ![r] = ChooseHandler(err, chain, middleware)]
    /\ pc' = [pc EXCEPT ![r] = "down"]
    /\ UNCHANGED <<appVars, depth, ret, ehLog, panicked, child, taskVars, ehVars>>

InLayer(r) == pc[r] = "down" /\ depth[r] < Len(handler[r].layers)
AtInner(r) == pc[r] = "down" /\ depth[r] = Len(handler[r].layers)

\* A middleware runs its "before" phase and calls the handler it wraps
MwCall(r) ==
    /\ ~exited
    /\ InLayer(r)
    /\ LET m == handler[r].layers[depth[r] + 1]
       IN  trace' = [trace EXCEPT ![r] = Append(@, Ev("before", m, NoErr))]
    /\ depth' = [depth EXCEPT ![r] = @ + 1]
    /\ UNCHANGED <<appVars, req, pc, handler, ret, ctx, ehLog, panicked, child, taskVars, ehVars>>

\* A middleware returns out without calling the handler it wraps; w: it writes
\* a response first
MwShort(r, w, out) ==
    /\ ~exited
    /\ InLayer(r)
    /\ LET m == handler[r].layers[depth[r] + 1]
       IN  trace' = [trace EXCEPT ![r] =
                       @ \o <<Ev("before", m, NoErr), Ev("short", m, out)>>]
    /\ ctx' = [ctx EXCEPT ![r] = IF w THEN Respond(@, 401, "denied", TRUE) ELSE @]
    /\ ret' = [ret EXCEPT ![r] = out]
    /\ pc' = [pc EXCEPT ![r] = "up"]
    /\ UNCHANGED <<appVars, req, handler, depth, ehLog, panicked, child, taskVars, ehVars>>

\* A middleware panics
MwPanic(r) ==
    /\ ~exited
    /\ InLayer(r)
    /\ LET m == handler[r].layers[depth[r] + 1]
       IN  trace' = [trace EXCEPT ![r] =
                       @ \o <<Ev("before", m, NoErr), Ev("panic", m, NoErr)>>]
    /\ panicked' = [panicked EXCEPT ![r] = TRUE]
    /\ pc' = [pc EXCEPT ![r] = "exit"]
    /\ UNCHANGED <<appVars, req, handler, depth, ret, ctx, ehLog, child, taskVars, ehVars>>

\* Lines 117-122 with the behaviour of h: w: h writes a response; out: what h
\* returns; wok: whether the error handler's write succeeds
\* (an innermost closure that returns h's error after handling it)
Innermost_Propagates(policy, c, w, out, wok) ==
    LET c1 == IF w THEN Respond(c, 200, "result", TRUE) ELSE c
        failed == out # NoErr
    IN  [c |-> IF failed THEN CallErrorHandler(policy, c1, out, wok) ELSE c1,
         calls |-> IF failed THEN <<Call(policy, out, "closure")>> ELSE <<>>,
         events |-> <<Ev("terminal", 0, out)>> \o
                    (IF failed THEN <<Ev("errorhandler", 0, out)>> ELSE <<>>),
         ret |-> out]

Innermost(policy, c, w, out, wok) ==
    LET c1 == IF w THEN Respond(c, 200, "result", TRUE) ELSE c
        failed == out # NoErr
    IN  [c |-> IF failed THEN CallErrorHandler(policy, c1, out, wok) ELSE c1,
         calls |-> IF failed THEN <<Call(policy, out, "closure")>> ELSE <<>>,
         events |-> <<Ev("terminal", 0, out)>> \o
                    (IF failed THEN <<Ev("errorhandler", 0, out)>> ELSE <<>>),
         ret |-> NoErr]

TerminalCall(r, w, out, wok) ==
    /\ ~exited
    /\ AtInner(r)
    /\ handler[r].inner = "terminal"
    /\ LET res == Innermost(ErrorHandler, ctx[r], w, out, wok)
       IN  /\ ctx' = [ctx EXCEPT ![r] = res.c]
           /\ ehLog' = [ehLog EXCEPT ![r] = @ \o res.calls]
           /\ trace' = [trace EXCEPT ![r] = @ \o res.events]
           /\ ret' = [ret EXCEPT ![r] = res.ret]
    /\ pc' = [pc EXCEPT ![r] = "up"]
    /\ UNCHANGED <<appVars, req, handler, depth, panicked, child, taskVars, ehVars>>

\* h panics
TerminalPanic(r) ==
    /\ ~exited
    /\ AtInner(r)
    /\ handler[r].inner = "terminal"
    /\ trace' = [trace EXCEPT ![r] =
                   @ \o <<Ev("terminal", 0, NoErr), Ev("panic", 0, NoErr)>>]
    /\ panicked' = [panicked EXCEPT ![r] = TRUE]
    /\ pc' = [pc EXCEPT ![r] = "exit"]
    /\ UNCHANGED <<appVars, req, handler, depth, ret, ctx, ehLog, child, taskVars, ehVars>>

\* (a stand-in that returns the decode error instead of responding)
FallbackCall_ReturnsError(r, wok) ==
    /\ ~exited
    /\ AtInner(r)
    /\ handler[r].inner = "fallback"
    /\ trace' = [trace EXCEPT ![r] = Append(@, Ev("fallback", 0, BadRequest))]
    /\ ret' = [ret EXCEPT ![r] = BadRequest]
    /\ pc' = [pc EXCEPT ![r] = "up"]
    /\ UNCHANGED <<appVars, req, handler, depth, ctx, ehLog, panicked, child, taskVars, ehVars>>

\* Lines 156-159: the handler standing in for h after a decode error
FallbackCall(r, wok) ==
    /\ ~exited
    /\ AtInner(r)
    /\ handler[r].inner = "fallback"
    /\ ctx' = [ctx EXCEPT ![r] = Respond(@, 400, InvalidJSONBody, wok)]
    /\ trace' = [trace EXCEPT ![r] = Append(@, Ev("fallback", 0, NoErr))]
    /\ ret' = [ret EXCEPT ![r] = NoErr]
    /\ pc' = [pc EXCEPT ![r] = "up"]
    /\ UNCHANGED <<appVars, req, handler, depth, ehLog, panicked, child, taskVars, ehVars>>

\* The wrapped handler returned: the middleware runs its "after" phase and
\* returns what it got
MwAfter(r) ==
    /\ ~exited
    /\ pc[r] = "up"
    /\ depth[r] > 0
    /\ LET m == handler[r].layers[depth[r]]
       IN  trace' = [trace EXCEPT ![r] = Append(@, Ev("after", m, ret[r]))]
    /\ depth' = [depth EXCEPT ![r] = @ - 1]
    /\ UNCHANGED <<appVars, req, pc, handler, ret, ctx, ehLog, panicked, child, taskVars, ehVars>>

\* Line 149: the deferred cancel() runs when the closure returns or unwinds
Cancel(c) == [c EXCEPT !.cancelled = TRUE]

\* Lines 166-171: handler(ctx) has returned (its result is dropped); the
\* response check
\* (a dispatcher without the final check)
CheckResponse_Never(policy, c, wok) == [c |-> c, calls |-> <<>>, events |-> <<>>]

\* (a check that takes a failed write for a missing response)
CheckResponse_AfterWriteError(policy, c, wok) ==
    LET unhandled == ~ResponseWritten(c) \/ c.errlog # {}
    IN  [c |-> IF unhandled THEN CallErrorHandler(policy, c, Unhandled, wok) ELSE c,
         calls |-> IF unhandled THEN <<Call(policy, Unhandled, "dispatch")>> ELSE <<>>,
         events |-> IF unhandled THEN <<Ev("errorhandler", 0, Unhandled)>> ELSE <<>>]

CheckResponse(policy, c, wok) ==
    LET unhandled == ~ResponseWritten(c)
    IN  [c |-> IF unhandled THEN CallErrorHandler(policy, c, Unhandled, wok) ELSE c,
         calls |-> IF unhandled THEN <<Call(policy, Unhandled, "dispatch")>> ELSE <<>>,
         events |-> IF unhandled THEN <<Ev("errorhandler", 0, Unhandled)>> ELSE <<>>]

\* (a dispatcher that treats an unhandled request as fatal)
ReqCheck_Fatal(r, wok) ==
    /\ ~exited
    /\ pc[r] = "up"
    /\ depth[r] = 0
    /\ exited' = ~ResponseWritten(ctx[r])
    /\ fatalMsg' = IF ResponseWritten(ctx[r]) THEN fatalMsg ELSE "unhandled request"
    /\ trace' = [trace EXCEPT ![r] = Append(@, Ev("return", 0, ret[r]))]
    /\ pc' = [pc EXCEPT ![r] = "exit"]
    /\ UNCHANGED <<Middleware, ErrorHandler, serving, bound, chain, middleware, req, handler,
                   depth, ret, ctx, ehLog, panicked, child, taskVars, ehVars>>

\* (an explicit cancel() after handler(ctx), ahead of the response check)
ReqCheck_CancelFirst(r, wok) ==
    /\ ~exited
    /\ pc[r] = "up"
    /\ depth[r] = 0
    /\ LET res == CheckResponse(ErrorHandler, Cancel(ctx[r]), wok)
       IN  /\ ctx' = [ctx EXCEPT ![r] = res.c]
           /\ ehLog' = [ehLog EXCEPT ![r] = @ \o res.calls]
           /\ trace' = [trace EXCEPT ![r] =
                          @ \o <<Ev("cancel", 0, NoErr), Ev("return", 0, ret[r])>> \o res.events]
    /\ pc' = [pc EXCEPT ![r] = "exit"]
    /\ UNCHANGED <<appVars, req, handler, depth, ret, panicked, child, taskVars, ehVars>>

ReqCheck(r, wok) ==
    /\ ~exited
    /\ pc[r] = "up"
    /\ depth[r] = 0
    /\ LET res == CheckResponse(ErrorHandler, ctx[r], wok)
       IN  /\ ctx' = [ctx EXCEPT ![r] = res.c]
           /\ ehLog' = [ehLog EXCEPT ![r] = @ \o res.calls]
           /\ trace' = [trace EXCEPT ![r] =
                          @ \o <<Ev("return", 0, ret[r])>> \o res.events]
    /\ pc' = [pc EXCEPT ![r] = "exit"]
    /\ UNCHANGED <<appVars, req, handler, depth, ret, panicked, child, taskVars, ehVars>>

\* (cancel() called as the closure's last statement instead of deferred)
ReqExit_NotDeferred(r) ==
    /\ ~exited
    /\ pc[r] = "exit"
    /\ ctx' = [ctx EXCEPT ![r] = IF panicked[r] THEN @ ELSE Cancel(@)]
    /\ trace' = [trace EXCEPT ![r] =
                   IF panicked[r] THEN @ ELSE Append(@, Ev("cancel", 0, NoErr))]
    /\ pc' = [pc EXCEPT ![r] = "done"]
    /\ UNCHANGED <<appVars, req, handler, depth, ret, ehLog, panicked, child, taskVars, ehVars>>

ReqExit(r) ==
    /\ ~exited
    /\ pc[r] = "exit"
    /\ ctx' = [ctx EXCEPT ![r] = Cancel(@)]
    /\ trace' = [trace EXCEPT ![r] = Append(@, Ev("cancel", 0, NoErr))]
    /\ pc' = [pc EXCEPT ![r] = "done"]
    /\ UNCHANGED <<appVars, req, handler, depth, ret, ehLog, panicked, child, taskVars, ehVars>>

\* User code starts a goroutine that waits on ctx.Done()
SpawnChild(r) ==
    /\ ~exited
    /\ pc[r] \in {"down", "up"}
    /\ child[r] = "none"
    /\ child' = [child EXCEPT ![r] = "waiting"]
    /\ UNCHANGED <<appVars, req, pc, handler, depth, ret, ctx, trace, ehLog, panicked,
                   taskVars, ehVars>>

\* ... and is released when the signal fires
ChildRelease(r) ==
    /\ ~exited
    /\ child[r] = "waiting"
    /\ ctx[r].cancelled
    /\ child' = [child EXCEPT ![r] = "released"]
    /\ UNCHANGED <<appVars, req, pc, handler, depth, ret, ctx, trace, ehLog, panicked,
                   taskVars, ehVars>>

\* ---- a middleware that races its wrapped handler against a deadline ----
\* The innermost middleware has started the handler it wraps in a goroutine of
\* its own; the deadline passes first and the middleware returns an error
\* without writing, leaving the goroutine running.
DeadlineExceeded == [kind |-> "error", msg |-> "timeout"]

TimeoutFire(r) ==
    /\ ~exited
    /\ AtInner(r)
    /\ depth[r] >= 1
    /\ task[r] = "none"
    /\ task' = [task EXCEPT ![r] = "running"]
    /\ trace' = [trace EXCEPT ![r] = Append(@, Ev("timeout", handler[r].layers[depth[r]], NoErr))]
    /\ ret' = [ret EXCEPT ![r] = DeadlineExceeded]
    /\ pc' = [pc EXCEPT ![r] = "up"]
    /\ UNCHANGED <<appVars, req, handler, depth, ctx, ehLog, panicked, child, seen, ehVars>>

\* The goroutine runs the innermost closure of lines 117-122 on the request's
\* Context; nobody waits for what it returns
TaskTerminal(r, w, out, wok) ==
    /\ ~exited
    /\ task[r] = "running"
    /\ ~ctx[r].cancelled
    /\ handler[r].inner = "terminal"
    /\ LET res == Innermost(ErrorHandler, ctx[r], w, out, wok)
       IN  /\ ctx' = [ctx EXCEPT ![r] = res.c]
           /\ ehLog' = [ehLog EXCEPT ![r] = @ \o res.calls]
           /\ trace' = [trace EXCEPT ![r] = @ \o res.events]
    /\ task' = [task EXCEPT ![r] = "finished"]
    /\ UNCHANGED <<appVars, req, pc, handler, depth, ret, panicked, child, seen, ehVars>>

\* ... or the fallback of lines 156-159
TaskFallback(r, wok) ==
    /\ ~exited
    /\ task[r] = "running"
    /\ ~ctx[r].cancelled
    /\ handler[r].inner = "fallback"
    /\ ctx' = [ctx EXCEPT ![r] = Respond(@, 400, InvalidJSONBody, wok)]
    /\ trace' = [trace EXCEPT ![r] = Append(@, Ev("fallback", 0, NoErr))]
    /\ task' = [task EXCEPT ![r] = "finished"]
    /\ UNCHANGED <<appVars, req, pc, handler, depth, ret, ehLog, panicked, child, seen, ehVars>>

\* ... and gives up without writing once it sees the request's Done() closed
TaskStop(r) ==
    /\ ~exited
    /\ task[r] = "running"
    /\ ctx[r].cancelled
    /\ task' = [task EXCEPT ![r] = "stopped"]
    /\ UNCHANGED <<appVars, req, pc, handler, depth, ret, ctx, trace, ehLog, panicked, child,
                   seen, ehVars>>

\* Lines 166-171 as the two steps they are when another goroutine may write
\* in between: line 169 reads the flag ...
ReqCheckRead(r) ==
    /\ ~exited
    /\ pc[r] = "up"
    /\ depth[r] = 0
    /\ seen' = [seen EXCEPT ![r] = ResponseWritten(ctx[r])]
    /\ trace' = [trace EXCEPT ![r] = Append(@, Ev("return", 0, ret[r]))]
    /\ pc' = [pc EXCEPT ![r] = "checked"]
    /\ UNCHANGED <<appVars, req, handler, depth, ret, ctx, ehLog, panicked, child, task, ehVars>>

\* ... and line 170 calls the error handler if the flag read was false
ReqCheckAct(r, wok) ==
    /\ ~exited
    /\ pc[r] = "checked"
    /\ IF seen[r]
       THEN UNCHANGED <<ctx, ehLog, trace>>
       ELSE /\ ctx' = [ctx EXCEPT ![r] = CallErrorHandler(ErrorHandler, @, Unhandled, wok)]
            /\ ehLog' = [ehLog EXCEPT ![r] = Append(@, Call(ErrorHandler, Unhandled, "dispatch"))]
            /\ trace' = [trace EXCEPT ![r] = Append(@, Ev("errorhandler", 0, Unhandled))]
    /\ pc' = [pc EXCEPT ![r] = "exit"]
    /\ UNCHANGED <<appVars, req, handler, depth, ret, panicked, child, taskVars, ehVars>>

\* ---- specifications ----
NextApp ==
    \/ \E m \in Mws, valid \in BOOLEAN : Use(m, valid)
    \/ \E h \in Policies : SetErrorHandler(h)
    \/ \E ok \in BOOLEAN : Run(ok)
    \/ NewHTTPRouterHandle

NextReq(r) ==
    \/ \E cl \in ContentLengths, dok \in BOOLEAN : ReqStart(r, cl, dok)
    \/ MwCall(r)
    \/ \E w \in BOOLEAN, out \in HandlerErrors \cup {NoErr} : MwShort(r, w, out)
    \/ MwPanic(r)
    \/ \E w, wok \in BOOLEAN, out \in HandlerErrors \cup {NoErr} :
           TerminalCall(r, w, out, wok)
    \/ TerminalPanic(r)
    \/ \E wok \in BOOLEAN : FallbackCall(r, wok)
    \/ MwAfter(r)
    \/ \E wok \in BOOLEAN : ReqCheck(r, wok)
    \/ ReqExit(r)
    \/ SpawnChild(r)
    \/ ChildRelease(r)

\* One request through one entry point, with the application's operations
\* interleaved at every step
Next == NextApp \/ \E r \in SeqReqs : NextReq(r)

Spec == Init /\ [][Next]_vars

\* The documented lifecycle: the application is configured, then the entry
\* point is bound, then a request is dispatched; a goroutine waiting on the
\* request's Done() channel runs once the channel is closed (weak fairness of
\* its step: the Go scheduler runs every runnable goroutine).
NextConfigured ==
    \/ ~bound /\ \E m \in Mws, valid \in BOOLEAN : Use(m, valid)
    \/ ~bound /\ \E h \in Policies : SetErrorHandler(h)
    \/ NewHTTPRouterHandle
    \/ \E r \in SeqReqs : NextReq(r)

FairSpec ==
    Init /\ [][NextConfigured]_vars /\ \A r \in SeqReqs : WF_vars(ChildRelease(r))

\* A configured application whose innermost middleware may time out: the
\* dispatching goroutine and the handler's goroutine interleave step by step
NextTimeout ==
    \/ ~bound /\ \E m \in Mws : Use(m, TRUE)
    \/ ~bound /\ \E h \in Policies : SetErrorHandler(h)
    \/ NewHTTPRouterHandle
    \/ \E r \in SeqReqs :
        \/ \E cl \in ContentLengths, dok \in BOOLEAN : ReqStart(r, cl, dok)
        \/ MwCall(r)
        \/ \E w, wok \in BOOLEAN, out \in HandlerErrors \cup {NoErr} :
               TerminalCall(r, w, out, wok)
        \/ \E wok \in BOOLEAN : FallbackCall(r, wok)
        \/ TimeoutFire(r)
        \/ \E w, wok \in BOOLEAN, out \in HandlerErrors \cup {NoErr} :
               TaskTerminal(r, w, out, wok)
        \/ \E wok \in BOOLEAN : TaskFallback(r, wok)
        \/ TaskStop(r)
        \/ MwAfter(r)
        \/ ReqCheckRead(r)
        \/ \E wok \in BOOLEAN : ReqCheckAct(r, wok)
        \/ ReqExit(r)

SpecTimeout == Init /\ [][NextTimeout]_vars

\* Requests dispatched concurrently through one entry point without
\* middleware: net/http runs the closure in a goroutine per request, and the
\* steps of different requests interleave freely
NextConc ==
    \/ ~bound /\ \E h \in Policies : SetErrorHandler(h)
    \/ NewHTTPRouterHandle
    \/ \E r \in Reqs :
        \/ \E cl \in ContentLengths, dok \in BOOLEAN :
               cl >= 0 /\ (cl > 0 \/ dok) /\ ReqStart(r, cl, dok)
        \/ \E w, wok \in BOOLEAN, out \in HandlerErrors \cup {NoErr} :
               TerminalCall(r, w, out, wok)
        \/ \E wok \in BOOLEAN : FallbackCall(r, wok)
        \/ \E wok \in BOOLEAN : ReqCheck(r, wok)
        \/ ReqExit(r)

SpecConc == Init /\ [][NextConc]_vars

\* ---- the error handlers as functions of (Context, error) ----
Headers == {"", "application/json", "text/plain"}

\* Contexts an error handler can be handed: fresh or already written to by the
\* handler, with any Content-Type the handler may have set
EhContexts ==
    {SetContentType(NewContext("nil"), h) : h \in Headers} \cup
    {SetContentType(Respond(NewContext("nil"), 200, "result", TRUE), h) : h \in Headers}

InitEH ==
    /\ InitApp
    /\ InitReq
    /\ ehIn \in [c : EhContexts, e : AllErrors]
    /\ ehOut = [p \in Policies |-> <<>>]

ApplyDefault(wok) ==
    /\ ehOut["DefaultErrorHandler"] = <<>>
    /\ ehOut' = [ehOut EXCEPT !["DefaultErrorHandler"] =
                    <<DefaultErrorHandler(ehIn.c, ehIn.e, wok)>>]
    /\ UNCHANGED <<appVars, reqVars, ehIn>>

ApplyTerse(wok) ==
    /\ ehOut["TerseErrorHandler"] = <<>>
    /\ ehOut' = [ehOut EXCEPT !["TerseErrorHandler"] =
                    <<TerseErrorHandler(ehIn.c, ehIn.e, wok)>>]
    /\ UNCHANGED <<appVars, reqVars, ehIn>>

NextEH == \E wok \in BOOLEAN : ApplyDefault(wok) \/ ApplyTerse(wok)

SpecEH == InitEH /\ [][NextEH]_vars

\* ---- reading a request's trace ----
Evs(r, S) == SelectSeq(trace[r], LAMBDA e : e.ev \in S)
MwOf(seq) == [i \in 1..Len(seq) |-> seq[i].mw]
Befores(r) == MwOf(Evs(r, {"before"}))
Afters(r) == MwOf(Evs(r, {"after"}))
Has(r, e) == \E i \in DOMAIN trace[r] : trace[r][i].ev = e
Reverse(s) == [i \in 1..Len(s) |-> s[Len(s) + 1 - i]]
Prefix(s, k) == SubSeq(s, 1, k)
Shape(r) ==
    LET f == Evs(r, {"before", "terminal", "fallback", "after"})
    IN  [i \in 1..Len(f) |-> <<f[i].ev, f[i].mw>>]
\* chain[0](chain[1](...chain[N-1](inner)...)) run to the end
FullRun(ch, inner) ==
    [i \in 1..(2 * Len(ch) + 1) |->
        IF i <= Len(ch) THEN <<"before", ch[i]>>
        ELSE IF i = Len(ch) + 1 THEN <<inner, 0>>
        ELSE <<"after", ch[2 * Len(ch) + 2 - i]>>]
PassThrough(r) == ~Has(r, "short") /\ ~Has(r, "panic")
Returned(r) == pc[r] \in {"exit", "done"} /\ ~panicked[r]
Responses(r) == Len(ctx[r].responses)

\* C1: every dispatch writes exactly one response: never a second write, and
\* one write by the time the closure returns.
C1_ExactlyOneResponse ==
    \A r \in Reqs :
        /\ Responses(r) <= 1
        /\ (pc[r] = "done" /\ ~panicked[r]) => Responses(r) = 1

\* C2: the handler run is chain[0](chain[1](...chain[N-1](terminal)...)): the
\* "before" phases run in registration order, the innermost handler only after
\* all N of them, the "after" phases in reverse registration order; a dispatch
\* in which every middleware calls on is exactly that run.
C2_CompositionOrder ==
    \A r \in Reqs :
        pc[r] # "idle" =>
            LET b == Befores(r)
                a == Afters(r)
                sh == Shape(r)
                full == FullRun(chain, handler[r].inner)
                top == IF Has(r, "panic") THEN 0
                       ELSE IF Has(r, "short") THEN Len(b) - 1 ELSE Len(b)
            IN  /\ Len(b) <= Len(chain)
                /\ b = Prefix(chain, Len(b))
                /\ Len(a) <= top
                /\ a = Prefix(Reverse(Prefix(chain, top)), Len(a))
                /\ (Has(r, "terminal") \/ Has(r, "fallback")) => b = chain
                /\ PassThrough(r) => (Len(sh) <= Len(full) /\ sh = Prefix(full, Len(sh)))
                /\ (PassThrough(r) /\ Returned(r)) => sh = full

C2_Witness ==
    /\ pc[1] = "done"
    /\ Len(chain) >= 2
    /\ chain[1] # chain[2]
    /\ Has(1, "terminal")
    /\ Shape(1) = FullRun(chain, "terminal")

\* C3 as claimed: the middleware registered last is the outermost (first to
\* see the request, last to see the response), the one registered first is
\* next to the terminal handler.
C3_LastRegisteredOutermost ==
    \A r \in Reqs :
        Len(chain) >= 2 =>
            LET b == Befores(r)
                a == Afters(r)
            IN  /\ Len(b) >= 1 => b[1] = chain[Len(chain)]
                /\ Len(a) = Len(chain) => a[Len(a)] = chain[Len(chain)]
                /\ (Has(r, "terminal") \/ Has(r, "fallback")) => b[Len(b)] = chain[1]

\* C3 amended: the middleware registered FIRST is the outermost (first to see
\* the request, last to see the response), the one registered LAST is next to
\* the terminal handler.
C3_FirstRegisteredOutermost ==
    \A r \in Reqs :
        Len(chain) >= 2 =>
            LET b == Befores(r)
                a == Afters(r)
            IN  /\ Len(b) >= 1 => b[1] = chain[1]
                /\ Len(a) = Len(chain) => a[Len(a)] = chain[1]
                /\ (Has(r, "terminal") \/ Has(r, "fallback")) =>
                       b[Len(b)] = chain[Len(chain)]

C3_Witness ==
    /\ Len(chain) >= 2
    /\ chain[1] # chain[Len(chain)]
    /\ Len(Afters(1)) = Len(chain)
    /\ Has(1, "terminal")

\* C4 as claimed: after a decode failure the terminal handler never runs and
\* every registered middleware observes the request, entering ("before") and
\* leaving ("after", or its own early return) exactly once, in order (stated
\* for the dispatches that return normally).
C4_AllMiddlewareObserve ==
    \A r \in Reqs :
        (handler[r].inner = "fallback" /\ Returned(r)) =>
            /\ ~Has(r, "terminal")
            /\ Befores(r) = chain
            /\ MwOf(Evs(r, {"after", "short"})) = Reverse(chain)

\* C4 amended: after a decode failure the terminal handler never runs and the
\* fallback runs inside the same chain, in the same order as the terminal
\* handler would: if no middleware short-circuits or panics, every middleware
\* runs "before" and "after" exactly once around the fallback; a middleware
\* that short-circuits hides the request from the middleware inside it only.
C4_FallbackThroughChain ==
    \A r \in Reqs :
        handler[r].inner = "fallback" =>
            LET b == Befores(r) IN
            /\ req[r].ContentLength > 0 /\ ~req[r].valid
            /\ ~Has(r, "terminal")
            /\ handler[r].layers = chain
            /\ (PassThrough(r) /\ Returned(r)) => Shape(r) = FullRun(chain, "fallback")
            /\ (Has(r, "short") /\ Returned(r)) =>
                   /\ b = Prefix(chain, Len(b))
                   /\ Afters(r) = Reverse(Prefix(chain, Len(b) - 1))

C4_Witness ==
    /\ handler[1].inner = "fallback"
    /\ pc[1] = "done"
    /\ Len(chain) >= 2
    /\ chain[1] # chain[2]
    /\ Shape(1) = FullRun(chain, "fallback")

\* C5: when the middleware at position k returns without calling the handler
\* it wraps, nothing inside it runs (no further "before", no terminal handler,
\* no fallback), and each middleware outside it runs its "after" phase, in
\* order k-1..1, and is handed the outcome the short-circuiting one returned,
\* as is the dispatcher.
C5_ShortCircuit ==
    \A r \in Reqs :
        \A i \in DOMAIN trace[r] :
            trace[r][i].ev = "short" =>
                LET k == Len(Befores(r))
                    out == trace[r][i].out
                IN  /\ Befores(r) = Prefix(chain, k)
                    /\ trace[r][i].mw = chain[k]
                    /\ ~Has(r, "terminal") /\ ~Has(r, "fallback")
                    /\ \A j \in DOMAIN trace[r] :
                           /\ j > i => trace[r][j].ev \in
                                           {"after", "return", "errorhandler", "cancel"}
                           /\ trace[r][j].ev \in {"after", "return"} =>
                                  (j > i /\ trace[r][j].out = out)
                    /\ pc[r] \in {"exit", "done"} =>
                           /\ Afters(r) = Reverse(Prefix(chain, k - 1))
                           /\ Has(r, "return")
                           /\ ~panicked[r]

C5_Witness ==
    /\ pc[1] = "done"
    /\ Len(chain) >= 2
    /\ chain[1] # chain[2]
    /\ \E i \in DOMAIN trace[1] :
           /\ trace[1][i] = Ev("short", chain[2], Internal)
    /\ Afters(1) = <<chain[1]>>

\* C6: the cancellation signal has fired whenever the closure has exited,
\* by return or by panic, so a goroutine waiting on it when the dispatch exits
\* is released (unless os.Exit ends the process, and the goroutine with it).
C6_CancelOnEveryExit ==
    \A r \in Reqs :
        /\ [](pc[r] = "done" => ctx[r].cancelled)
        /\ ((pc[r] = "done" /\ child[r] = "waiting") ~> (child[r] = "released" \/ exited))

C6_Witness ==
    /\ pc[1] = "done"
    /\ panicked[1]
    /\ child[1] = "released"
    /\ ctx[1].cancelled

\* C7: whenever the handler run by the dispatcher (terminal handler wrapped by
\* the chain) returns an error, the ErrorHandler is invoked with that error.
C7_FailureReachesErrorHandler ==
    \A r \in Reqs :
        \A i \in DOMAIN trace[r] :
            (trace[r][i].ev = "return" /\ trace[r][i].out # NoErr) =>
                \E j \in DOMAIN ehLog[r] : ehLog[r][j].cause = trace[r][i].out

DispatchCalls(r) == SelectSeq(ehLog[r], LAMBDA x : x.site = "dispatch")

C8_CheckStep(r) ==
    (pc[r] = "up" /\ depth[r] = 0 /\ pc'[r] = "exit") =>
        IF ~ctx[r].written
        THEN /\ ehLog'[r] = Append(ehLog[r], Call(ErrorHandler, Unhandled, "dispatch"))
             /\ ctx'[r].written
             /\ Len(ctx'[r].responses) = 1
        ELSE /\ ehLog'[r] = ehLog[r]
             /\ ctx'[r] = ctx[r]

\* C8: after the chain has returned, if the response-written flag is false
\* the ErrorHandler is invoked, once, with "unhandled request", and the flag
\* is true when the dispatch returns; if the flag is true it is not invoked.
C8_UnhandledRequest ==
    /\ [][\A r \in Reqs : C8_CheckStep(r)]_vars
    /\ [](\A r \in Reqs :
            /\ Len(DispatchCalls(r)) <= 1
            /\ \A j \in DOMAIN ehLog[r] :
                   (ehLog[r][j].site = "dispatch") = (ehLog[r][j].cause = Unhandled)
            /\ Returned(r) => ctx[r].written)

C8_Witness ==
    /\ pc[1] = "done"
    /\ ehLog[1] = <<Call("TerseErrorHandler", Unhandled, "dispatch")>>
    /\ ctx[1].written
    /\ Has(1, "terminal")

LastResponse(c) == c.responses[Len(c.responses)]
Sent(c) == [status |-> LastResponse(c).status, ctype |-> LastResponse(c).ctype,
            body |-> LastResponse(c).body]

\* C9: for a BadRequestError both built-in handlers write the same response:
\* status 400, Content-Type application/json, body = the error's message.
C9_BadRequestSame ==
    ehIn.e.kind = "BadRequestError" =>
        \A p \in Policies :
            ehOut[p] # <<>> =>
                /\ Len(ehOut[p][1].responses) = Len(ehIn.c.responses) + 1
                /\ Sent(ehOut[p][1]) =
                       [status |-> 400, ctype |-> "application/json", body |-> ehIn.e.msg]
                /\ ehOut[p][1].written

C9_Witness ==
    /\ ehIn.e.kind = "BadRequestError"
    /\ ehIn.c.header = "text/plain"
    /\ \A p \in Policies : ehOut[p] # <<>>
    /\ Sent(ehOut["DefaultErrorHandler"][1]) = Sent(ehOut["TerseErrorHandler"][1])

\* C10: for any other error both built-in handlers answer 500; the default
\* handler sends the error's message as body, the terse one an empty body,
\* and the two responses differ in nothing else.
C10_InternalError ==
    (ehIn.e.kind # "BadRequestError" /\ \A p \in Policies : ehOut[p] # <<>>) =>
        LET d == Sent(ehOut["DefaultErrorHandler"][1])
            t == Sent(ehOut["TerseErrorHandler"][1])
        IN  /\ d.status = 500 /\ t.status = 500
            /\ d.body = ehIn.e.msg
            /\ t.body = ""
            /\ d.ctype = t.ctype
            /\ ehOut["DefaultErrorHandler"][1].header = ehOut["TerseErrorHandler"][1].header

C10_Witness ==
    /\ ehIn.e = Internal
    /\ \A p \in Policies : ehOut[p] # <<>>
    /\ Sent(ehOut["DefaultErrorHandler"][1]).body = "boom"
    /\ Sent(ehOut["TerseErrorHandler"][1]).body = ""

\* C11: a request whose declared body fails to decode, dispatched through
\* middleware that all call on, is answered by the fallback handler itself: one
\* response, status 400, the invalid-request body carrying the decoder's
\* error; the ErrorHandler is not involved, so the configured policy makes no
\* difference.
DecodeFailed(r) == pc[r] # "idle" /\ req[r].ContentLength > 0 /\ ~req[r].valid
C11_DecodeFailureResponse ==
    \A r \in Reqs :
        (DecodeFailed(r) /\ PassThrough(r) /\ Returned(r)) =>
            /\ Responses(r) = 1
            /\ ctx[r].responses[1].status = 400
            /\ ctx[r].responses[1].body = InvalidJSONBody
            /\ ehLog[r] = <<>>
C11_Witness ==
    \E r \in Reqs :
        /\ DecodeFailed(r) /\ PassThrough(r) /\ pc[r] = "done"
        /\ ErrorHandler = "TerseErrorHandler"
        /\ Len(handler[r].layers) = MaxChain
        /\ Afters(r) = Reverse(chain)
        /\ ctx[r].responses[1].status = 400

\* C12 (as stated): the process exits only because Run failed to bind: no
\* other operation reaches the exit.
C12_BindFailureSoleExit == exited => fatalMsg = "startup failed"

\* C12 (amended): the process exits through Fatal in exactly two places, Run
\* failing to bind and Use being handed a value that is no middleware; a step
\* that exits is one of the application's configuration calls, never
\* SetErrorHandler, NewHTTPRouterHandle or a step of a request's dispatch.
C12_ExitStep ==
    exited' # exited =>
        /\ exited' /\ fatalMsg' \in {"startup failed", "invalid middleware"}
        /\ reqVars' = reqVars
        /\ <<ErrorHandler, bound, chain, middleware>>' = <<ErrorHandler, bound, chain, middleware>>
C12_ExitOnlyFromRunOrUse ==
    /\ [](exited <=> fatalMsg \in {"startup failed", "invalid middleware"})
    /\ [][C12_ExitStep]_vars
C12_Witness ==
    /\ exited /\ fatalMsg = "invalid middleware"
    /\ bound /\ Len(Middleware) = 1
    /\ pc[1] = "done"

\* C14 (as stated): every non-empty body a built-in error handler writes goes
\* out with Content-Type application/json, for 400, 500 and "unhandled
\* request" alike.
C14_EveryBodyStructured ==
    \A p \in Policies :
        (ehOut[p] # <<>> /\ Sent(ehOut[p][1]).body # "") =>
            Sent(ehOut[p][1]).ctype = "application/json"

\* C14 (amended): a built-in error handler sets Content-Type application/json
\* before the write only for a BadRequestError; for any other error, the
\* "unhandled request" one included, it leaves the header as it found it, so
\* the 500 response carries whatever Content-Type the context already had.
C14_ContentTypeOnlyFor400 ==
    \A p \in Policies :
        ehOut[p] # <<>> =>
            IF ehIn.e.kind = "BadRequestError"
            THEN Sent(ehOut[p][1]).ctype = "application/json"
            ELSE Sent(ehOut[p][1]).ctype = ehIn.c.header
C14_Witness ==
    /\ ehIn.e = Unhandled
    /\ ehIn.c.header = "" /\ ~ehIn.c.written
    /\ ehOut["DefaultErrorHandler"] # <<>>
    /\ Sent(ehOut["DefaultErrorHandler"][1]) =
           [status |-> 500, ctype |-> "", body |-> "unhandled request"]

\* C15: when the write of a built-in error handler fails, the failure is
\* logged and nothing else happens: the error handler has run once for the
\* request, its response entry is the failed one, and no later step of the
\* dispatch, the response check included, invokes the error handler again.
WriteFailed(r) == ctx[r].errlog # {}
C15_AfterWriteError(r) ==
    WriteFailed(r) =>
        /\ ehLog'[r] = ehLog[r]
        /\ ctx'[r].responses = ctx[r].responses
        /\ ctx'[r].errlog = ctx[r].errlog
C15_WriteErrorOnlyLogged ==
    /\ [](\A r \in Reqs :
            WriteFailed(r) =>
                /\ Len(ehLog[r]) = 1
                /\ ~LastResponse(ctx[r]).ok
                /\ ResponseWritten(ctx[r]))
    /\ [][\A r \in Reqs : C15_AfterWriteError(r)]_vars
C15_Witness ==
    \E r \in Reqs :
        /\ pc[r] = "done" /\ ~panicked[r]
        /\ WriteFailed(r)
        /\ ehLog[r] = <<Call("DefaultErrorHandler", Internal, "closure")>>
        /\ Responses(r) = 1

\* C16: the body is decoded exactly when the declared content length is
\* positive; a request that declares no body (length 0 or unknown) is never
\* decoded, has no decode failure and no payload, and runs the normal handler,
\* the chain bound to the entry point around the terminal handler.
C16_DecodeIffDeclared ==
    \A r \in Reqs :
        pc[r] # "idle" =>
            /\ Has(r, "decode") <=> req[r].ContentLength > 0
            /\ req[r].ContentLength <= 0 =>
                   /\ ctx[r].payload = "nil"
                   /\ handler[r] = [layers |-> middleware, inner |-> "terminal"]
                   /\ ~Has(r, "fallback")
            /\ req[r].ContentLength > 0 =>
                   /\ trace[r][1].ev = "decode"
                   /\ (trace[r][1].out = NoErr) <=> req[r].valid
                   /\ (ctx[r].payload = "decoded") <=> req[r].valid
                   /\ (handler[r].inner = "fallback") <=> ~req[r].valid
C16_Witness ==
    \E r \in Reqs :
        /\ pc[r] = "done" /\ req[r].ContentLength = -1 /\ ~req[r].valid
        /\ Has(r, "terminal") /\ ~Has(r, "decode")
        /\ ctx[r].payload = "nil"
        /\ Len(chain) > 0

\* C17: the middleware an entry point runs is the sequence registered when
\* NewHTTPRouterHandle was called: once bound, the captured chain and the
\* composed handler never change, whatever Use is called afterwards, and every
\* request, on the normal and on the fallback path, runs only middleware of
\* that captured chain.
Range(s) == {s[i] : i \in DOMAIN s}
C17_BoundStep == bound => (bound' /\ chain' = chain /\ middleware' = middleware)
C17_ChainFixedAtBind ==
    /\ [](\A r \in Reqs :
            pc[r] # "idle" =>
                /\ handler[r].layers = chain
                /\ Range(MwOf(trace[r])) \subseteq Range(chain) \cup {0}
                /\ Befores(r) = Prefix(chain, Len(Befores(r))))
    /\ [][C17_BoundStep]_vars
C17_Witness ==
    \E r \in Reqs :
        /\ pc[r] = "done" /\ PassThrough(r)
        /\ Len(chain) >= 1 /\ Len(Middleware) > Len(chain)
        /\ Middleware[Len(Middleware)] \notin Range(chain)
        /\ Shape(r) = FullRun(chain, "fallback")

\* C19: when the terminal handler returns an error, the error handler runs at
\* once, inside the innermost closure and before any middleware's "after"
\* phase, and the closure returns nil: every middleware that called on, and the
\* dispatcher, receive success.
TerminalFailedAt(r, i) == trace[r][i].ev = "terminal" /\ trace[r][i].out # NoErr
C19_FailureHandledInnermost ==
    \A r \in Reqs :
        \A i \in DOMAIN trace[r] :
            TerminalFailedAt(r, i) =>
                /\ i < Len(trace[r])
                /\ trace[r][i + 1] = Ev("errorhandler", 0, trace[r][i].out)
                /\ ehLog[r] = <<Call(ehLog[r][1].policy, trace[r][i].out, "closure")>>
                /\ \A j \in DOMAIN trace[r] :
                       (j > i /\ trace[r][j].ev \in {"after", "return"}) =>
                           trace[r][j].out = NoErr
                /\ pc[r] = "up" => ret[r] = NoErr
C19_Witness ==
    \E r \in Reqs :
        /\ pc[r] = "done"
        /\ \E i \in DOMAIN trace[r] : TerminalFailedAt(r, i)
        /\ Len(chain) = MaxChain
        /\ Afters(r) = Reverse(chain)
        /\ \A j \in DOMAIN trace[r] : trace[r][j].ev = "after" => trace[r][j].out = NoErr

\* C20 (as stated): in every dispatch the signal fires only after the chain
\* has returned and the response check has completed.
C20_CancelAfterCheck ==
    \A r \in Reqs : ctx[r].cancelled => Has(r, "return")

\* C20 (amended): the dispatcher fires the signal once, as the last act of the
\* closure. In a dispatch that returns, that is after the chain has returned
\* and the response check (with the error handler's write, if any) is over; in
\* a dispatch ended by a panic the signal fires while the panic unwinds the
\* closure, the chain having stopped and the check never having run.
Cancels(r) == Len(Evs(r, {"cancel"}))
C20_AfterCancel(r) ==
    ctx[r].cancelled => (trace'[r] = trace[r] /\ ctx'[r] = ctx[r] /\ pc'[r] = pc[r])
C20_CancelLast ==
    /\ [](\A r \in Reqs :
            /\ ctx[r].cancelled <=> pc[r] = "done"
            /\ Cancels(r) = IF ctx[r].cancelled THEN 1 ELSE 0
            /\ ctx[r].cancelled =>
                   /\ trace[r][Len(trace[r])].ev = "cancel"
                   /\ IF panicked[r]
                      THEN Has(r, "panic") /\ ~Has(r, "return")
                      ELSE /\ Has(r, "return")
                           /\ ResponseWritten(ctx[r])
                           /\ trace[r][Len(trace[r]) - 1].ev \in {"return", "errorhandler"})
    /\ [][\A r \in Reqs : C20_AfterCancel(r)]_vars
C20_Witness ==
    \E r \in Reqs :
        /\ pc[r] = "done" /\ ~panicked[r]
        /\ ehLog[r] = <<Call(ErrorHandler, Unhandled, "dispatch")>>
        /\ Len(chain) = MaxChain
        /\ SubSeq(trace[r], Len(trace[r]) - 2, Len(trace[r])) =
               <<Ev("return", 0, NoErr), Ev("errorhandler", 0, Unhandled), Ev("cancel", 0, NoErr)>>

\* C13: when a middleware's deadline beats the handler running in its own
\* goroutine, the request still gets at most one response write, and the
\* dispatcher acts on the flag it read only while that flag is still unset:
\* no write by the handler's goroutine falls between the dispatcher's check
\* and the error handler's write. (Handlers that write and also fail are left
\* out: that second write is C1's.)
TimedOut(r) == task[r] # "none"
HandlerFailed(r) == \E i \in DOMAIN trace[r] : TerminalFailedAt(r, i)
C13_OneWriteUnderTimeout ==
    \A r \in Reqs :
        (TimedOut(r) /\ ~HandlerFailed(r)) =>
            /\ Responses(r) <= 1
            /\ (pc[r] = "checked" /\ ~seen[r]) => ~ResponseWritten(ctx[r])

\* C18: requests in flight at the same time through one entry point each have
\* a Context of their own: a step of one request (a response write, the flag
\* being set, the cancellation firing, the Context being built) leaves every
\* other request's Context, payload, handler, position and history as they
\* were, and the response check of a request decides on that request's flag
\* alone, whatever the flags of the others are.
Own(r) ==
    <<req[r], pc[r], handler[r], depth[r], ret[r], ctx[r], trace[r], ehLog[r], panicked[r],
      child[r], task[r], seen[r]>>
C18_CheckOwnFlag(r) ==
    (pc[r] = "up" /\ depth[r] = 0 /\ pc'[r] = "exit") =>
        /\ (ehLog'[r] # ehLog[r]) <=> ~ctx[r].written
        /\ (ctx'[r] # ctx[r]) <=> ~ctx[r].written
C18_Step ==
    \A r \in Reqs :
        /\ C18_CheckOwnFlag(r)
        /\ Own(r)' # Own(r) => \A q \in Reqs \ {r} : Own(q)' = Own(q)
C18_ContextPerRequest == [][C18_Step]_vars
C18_Witness ==
    \E r, q \in Reqs :
        /\ pc[r] = "up" /\ ctx[r].written /\ ctx[r].payload = "decoded"
        /\ pc[q] = "exit" /\ ctx[q].payload = "nil"
        /\ ehLog[q] = <<Call(ErrorHandler, Unhandled, "dispatch")>>
        /\ ehLog[r] = <<>>
        /\ ~ctx[r].cancelled /\ ~ctx[q].cancelled

====
